---- MODULE Spec2Model ----
(***************************************************************************)
(* ACRA collector (src/main.rs): the request handler ReportHandler::handle *)
(* run by a pool of worker threads.  Each request is read, appended to     *)
(* crashes.txt, parsed into a Report, rendered into an e-mail and sent.    *)
(*                                                                         *)
(* Text is a sequence of tokens.  A token is a one-character string, or a  *)
(* literal of the source kept whole ("New crash of ", "CRLF", ...).        *)
(* The request body is a sequence of JSON tokens (records).                *)
(***************************************************************************)
EXTENDS Integers, Sequences, FiniteSets, TLC

VARIABLES
    config,     \* ReportHandler.config (email_from, email_to)
    pc,         \* pc[r]: where the worker that serves request r is in handle
    body,       \* body[r]: the request body sent by the client
    payload,    \* payload[r]: the local variable payload
    off,        \* off[r]: tokens of the payload already written by write_all
    report,     \* report[r]: the local variable report (with its HashMap order)
    email,      \* email[r]: the local variable email (the built Message)
    log,        \* crashes.txt: sequence of <<r, i>>, token i of r's entry
    mail,       \* mail[r]: the messages the SMTP server accepted for request r
    resp,       \* resp[r]: the HTTP response of request r
    steps,      \* steps[r]: the steps of handle run for r, with their outcome
    cReport,    \* the report content rendered by the composer on its own
    cMsgs       \* the results of rendering cReport

vars == <<config, pc, body, payload, off, report, email, log, mail, resp, steps, cReport, cMsgs>>

hvars == <<config, pc, body, payload, off, report, email, log, mail, resp, steps>>

\* ---------------------------------------------------------------- bounds
\* Requests submitted in one run.
MaxReq == 2
\* Longest PACKAGE_NAME / APP_VERSION_NAME given to the composer.
MaxLen == 2

\* Tokens a short write puts in the file before it returns.
ShortWrite == 5

\* iron.threads
Threads == 4

None == [none |-> TRUE]

Reqs == 1..MaxReq

\* ------------------------------------------------------------------ text
\* The characters of the names given to the composer: those of the separator
\* the subject puts between the two names.
Chars == {" ", "("}

RECURSIVE StrsOfLen(_)
StrsOfLen(n) ==
    IF n = 0 THEN {<<>>}
    ELSE {Append(s, c) : s \in StrsOfLen(n - 1), c \in Chars}

Strs == UNION {StrsOfLen(n) : n \in 0..MaxLen}

Digit(d) == CASE d = 0 -> "0" [] d = 1 -> "1" [] d = 2 -> "2" [] d = 3 -> "3"
              [] d = 4 -> "4" [] d = 5 -> "5" [] d = 6 -> "6" [] d = 7 -> "7"
              [] d = 8 -> "8" [] d = 9 -> "9"

\* Display of an unsigned integer: its decimal digits.
RECURSIVE DisplayU64(_)
DisplayU64(n) == IF n < 10 THEN <<Digit(n)>> ELSE DisplayU64(n \div 10) \o <<Digit(n % 10)>>

\* ------------------------------------------------------------ JSON values
\* serde_json::Value, scalars only: a string or a number.
StrVal(s) == [t |-> "str", s |-> s, n |-> 0, m |-> <<>>]
NumVal(n) == [t |-> "num", s |-> <<>>, n |-> n, m |-> <<>>]
\* A JSON object: its members <<key, value>> in the order of the text.
ObjVal(m) == [t |-> "obj", s |-> <<>>, n |-> 0, m |-> m]

\* Display of a serde_json::Value: compact JSON (a string is quoted).
DisplayValue(v) ==
    IF v.t = "str" THEN <<"\"">> \o v.s \o <<"\"">>
    ELSE IF v.n < 0 THEN <<"-">> \o DisplayU64(0 - v.n) ELSE DisplayU64(v.n)

\* ------------------------------------------------------ the request body
\* The body is a sequence of JSON tokens: "{", "}" or a member "key": value.
LBrace == [t |-> "{", k |-> "", v |-> NumVal(0)]
RBrace == [t |-> "}", k |-> "", v |-> NumVal(0)]
Member(k, v) == [t |-> "member", k |-> k, v |-> v]

\* The line separator writeln! adds; token 0 of an entry of the log.
Newline == [t |-> "\n", k |-> "", v |-> NumVal(0)]

\* The text of token <<r, i>> of the log, given the bodies of the requests.
TokenText(bodies, e) == IF e[2] = 0 THEN Newline ELSE bodies[e[1]][e[2]]

FieldNames == {"ANDROID_VERSION", "APP_VERSION_CODE", "APP_VERSION_NAME",
               "CUSTOM_DATA", "PACKAGE_NAME", "REPORT_ID", "STACK_TRACE"}

StringFields == FieldNames \ {"APP_VERSION_CODE", "CUSTOM_DATA"}

\* ------------------------------------------------------------ struct Report
\* HashMap<String, Value> from the members of a JSON object: a later member
\* replaces an earlier one with the same key.
CustomMap(m) ==
    [key \in {m[i][1] : i \in 1..Len(m)} |->
        LET last == CHOOSE i \in 1..Len(m) :
                        /\ m[i][1] = key
                        /\ \A j \in 1..Len(m) : m[j][1] = key => j <= i
        IN  m[last][2]]

\* The orders in which a HashMap holding the keys S can be iterated: the order
\* is that of the table, which the per-instance random hasher decides.
IterOrders(S) ==
    {o \in [1..Cardinality(S) -> S] : \A i, j \in 1..Cardinality(S) : o[i] = o[j] => i = j}

IsJsonObject(text) ==
    /\ Len(text) >= 2
    /\ text[1].t = "{"
    /\ text[Len(text)].t = "}"
    /\ \A i \in 2..(Len(text) - 1) : text[i].t = "member"

FieldIdx(text, name) == {i \in 2..(Len(text) - 1) : text[i].k = name}

FieldTypeOk(name, v) ==
    CASE name \in StringFields -> v.t = "str"
      [] name = "APP_VERSION_CODE" -> v.t = "num" /\ v.n >= 0
      [] name = "CUSTOM_DATA" -> v.t = "obj"

\* Deserialize for Report: every field exactly once and of its type (u64: a
\* number that is not negative; the numbers of the model are far below 2^64);
\* members with other keys are skipped.
IsReport(text) ==
    /\ IsJsonObject(text)
    /\ \A name \in FieldNames :
          /\ Cardinality(FieldIdx(text, name)) = 1
          /\ \A i \in FieldIdx(text, name) : FieldTypeOk(name, text[i].v)

Field(text, name) == text[CHOOSE i \in FieldIdx(text, name) : TRUE].v

\* The content of the Report decoded from a body that IsReport.
Report(text) ==
    [ANDROID_VERSION  |-> Field(text, "ANDROID_VERSION").s,
     APP_VERSION_CODE |-> Field(text, "APP_VERSION_CODE").n,
     APP_VERSION_NAME |-> Field(text, "APP_VERSION_NAME").s,
     CUSTOM_DATA      |-> CustomMap(Field(text, "CUSTOM_DATA").m),
     PACKAGE_NAME     |-> Field(text, "PACKAGE_NAME").s,
     REPORT_ID        |-> Field(text, "REPORT_ID").s,
     STACK_TRACE      |-> Field(text, "STACK_TRACE").s]

\* serde_json::from_str(&payload): the results it can give.  The Report comes
\* with the iteration order of its CUSTOM_DATA.
ParseResults(text) ==
    IF IsReport(text)
    THEN {[ok |-> TRUE, report |-> [rep |-> Report(text), iter |-> o]] :
              o \in IterOrders(DOMAIN Report(text).CUSTOM_DATA)}
    ELSE {[ok |-> FALSE, report |-> None]}

\* -------------------------------------------------------------- the e-mail
CRLF == "\r\n"

\* Mutant: the loop over CUSTOM_DATA stops after its first entry.
CustomLines_FirstOnly(cd, iter) ==
    IF iter = <<>> THEN <<>>
    ELSE <<"  ">> \o Head(iter) \o <<" = ">> \o DisplayValue(cd[Head(iter)]) \o <<CRLF>>

RECURSIVE CustomLines(_, _)
CustomLines(cd, iter) ==
    IF iter = <<>> THEN <<>>
    ELSE <<"  ">> \o Head(iter) \o <<" = ">> \o DisplayValue(cd[Head(iter)]) \o <<CRLF>>
         \o CustomLines(cd, Tail(iter))

\* Mutant: the test for an empty CUSTOM_DATA is missing, so the heading of the
\* custom-data section is always written.
EmailText_AlwaysSection(rep, iter) ==
    <<"A new crash happened:", CRLF, CRLF>>
    \o <<"- Report ID: ">> \o rep.REPORT_ID \o <<CRLF>>
    \o <<"- Version: ">> \o rep.APP_VERSION_NAME \o <<" ", "(">>
         \o DisplayU64(rep.APP_VERSION_CODE) \o <<")", CRLF>>
    \o <<"- Android version: ">> \o rep.ANDROID_VERSION \o <<CRLF>>
    \o <<CRLF, "Custom data:", CRLF, CRLF>> \o CustomLines(rep.CUSTOM_DATA, iter)
    \o <<CRLF, "Stack trace:", CRLF, CRLF>> \o rep.STACK_TRACE

\* email_text, as the push_str calls build it.
EmailText(rep, iter) ==
    <<"A new crash happened:", CRLF, CRLF>>
    \o <<"- Report ID: ">> \o rep.REPORT_ID \o <<CRLF>>
    \o <<"- Version: ">> \o rep.APP_VERSION_NAME \o <<" ", "(">>
         \o DisplayU64(rep.APP_VERSION_CODE) \o <<")", CRLF>>
    \o <<"- Android version: ">> \o rep.ANDROID_VERSION \o <<CRLF>>
    \o (IF DOMAIN rep.CUSTOM_DATA # {}
        THEN <<CRLF, "Custom data:", CRLF, CRLF>> \o CustomLines(rep.CUSTOM_DATA, iter)
        ELSE <<>>)
    \o <<CRLF, "Stack trace:", CRLF, CRLF>> \o rep.STACK_TRACE

\* Mutant: the subject shows the version code where the version name belongs.
Subject_VersionCode(rep) ==
    <<"New crash of ">> \o rep.PACKAGE_NAME \o <<" ", "(">>
    \o DisplayU64(rep.APP_VERSION_CODE) \o <<")">>

\* Mutant: the subject leaves out the version name.
Subject_NoVersion(rep) == <<"New crash of ">> \o rep.PACKAGE_NAME

Subject(rep) ==
    <<"New crash of ">> \o rep.PACKAGE_NAME \o <<" ", "(">> \o rep.APP_VERSION_NAME \o <<")">>

\* str::parse::<Mailbox>: an address is local@domain.
IsMailbox(a) ==
    \E i \in 2..(Len(a) - 1) :
        /\ a[i] = "@"
        /\ \A j \in 1..Len(a) : a[j] = "@" => j = i

\* Message::builder().from(..).to(..).subject(..).body(..): the unwrap of a
\* failed address parse panics; the builder's own validation gives Err when
\* `valid` is false.
\* Mutant: the builder is given the sender as recipient and the recipient as
\* sender.
EmailResult_Swapped(cfg, r, valid) ==
    IF ~IsMailbox(cfg.email_from) \/ ~IsMailbox(cfg.email_to)
    THEN [kind |-> "panic", email |-> None]
    ELSE IF ~valid
    THEN [kind |-> "err", email |-> None]
    ELSE [kind |-> "ok",
          email |-> [from    |-> cfg.email_to,
                     to      |-> cfg.email_from,
                     subject |-> Subject(r.rep),
                     body    |-> EmailText(r.rep, r.iter)]]

EmailResult(cfg, r, valid) ==
    IF ~IsMailbox(cfg.email_from) \/ ~IsMailbox(cfg.email_to)
    THEN [kind |-> "panic", email |-> None]
    ELSE IF ~valid
    THEN [kind |-> "err", email |-> None]
    ELSE [kind |-> "ok",
          email |-> [from    |-> cfg.email_from,
                     to      |-> cfg.email_to,
                     subject |-> Subject(r.rep),
                     body    |-> EmailText(r.rep, r.iter)]]

\* ------------------------------------------------------------------ inputs
Str(c) == <<c>>

\* Config as config.json gives it: the addresses are any strings.
GoodConfig == [email_from |-> <<"f", "@", "x">>, email_to |-> <<"t", "@", "x">>]
BadFromConfig == [email_from |-> <<"f", "x">>, email_to |-> <<"t", "@", "x">>]
BadToConfig == [email_from |-> <<"f", "@", "x">>, email_to |-> <<"t", "@">>]

Configs == {GoodConfig, BadToConfig}

\* A report as ACRA posts it.
GoodBody ==
    <<LBrace,
      Member("ANDROID_VERSION", StrVal(Str("9"))),
      Member("APP_VERSION_CODE", NumVal(12)),
      Member("APP_VERSION_NAME", StrVal(<<"1", ".", "2">>)),
      Member("CUSTOM_DATA", ObjVal(<<<<Str("k"), StrVal(Str("v"))>>>>)),
      Member("PACKAGE_NAME", StrVal(Str("p"))),
      Member("REPORT_ID", StrVal(Str("i"))),
      Member("STACK_TRACE", StrVal(Str("s"))),
      RBrace>>

\* JSON cut short: the closing brace is missing.
TruncBody == <<LBrace, Member("REPORT_ID", StrVal(Str("i")))>>

Bodies == {GoodBody, TruncBody}

\* ------------------------------------------------------- ReportHandler::handle
Running == {"read", "open", "write", "newline", "parse", "email", "send"}

Response(status) == [status |-> status, body |-> <<>>]

Step(r, name, ok) == steps' = [steps EXCEPT ![r] = Append(@, <<name, ok>>)]

\* return Ok(Response::with(status)): the locals are dropped.
Return(r, status) ==
    /\ resp' = [resp EXCEPT ![r] = Response(status)]
    /\ pc' = [pc EXCEPT ![r] = "done"]
    /\ payload' = [payload EXCEPT ![r] = None]
    /\ report' = [report EXCEPT ![r] = None]
    /\ email' = [email EXCEPT ![r] = None]
    /\ off' = [off EXCEPT ![r] = 0]

\* Mutant: a thread per request: a request is taken whatever the number of
\* requests being handled.
Accept_NoLimit(r) ==
    /\ pc[r] = "pending"
    /\ \A q \in DOMAIN pc : q < r => pc[q] # "pending"
    /\ \E b \in Bodies : body' = [body EXCEPT ![r] = b]
    /\ pc' = [pc EXCEPT ![r] = "read"]
    /\ UNCHANGED <<config, payload, off, report, email, log, mail, resp, steps, cReport, cMsgs>>

\* A worker of the pool takes the next request; requests are numbered in the
\* order of their arrival.
Accept(r) ==
    /\ pc[r] = "pending"
    /\ \A q \in DOMAIN pc : q < r => pc[q] # "pending"
    /\ Cardinality({q \in DOMAIN pc : pc[q] \in Running}) < Threads
    /\ \E b \in Bodies : body' = [body EXCEPT ![r] = b]
    /\ pc' = [pc EXCEPT ![r] = "read"]
    /\ UNCHANGED <<config, payload, off, report, email, log, mail, resp, steps, cReport, cMsgs>>

\* Mutant: a failed read of the body is not answered; the handler goes on with
\* what it has.
ReadBody_ErrIgnored(r) ==
    /\ pc[r] = "read"
    /\ \E ok \in BOOLEAN :
          /\ Step(r, "receive", ok)
          /\ payload' = [payload EXCEPT ![r] = body[r]]
          /\ pc' = [pc EXCEPT ![r] = "open"]
          /\ UNCHANGED <<off, report, email, resp>>
    /\ UNCHANGED <<config, body, log, mail, cReport, cMsgs>>

\* req.body.read_to_string(&mut payload)
ReadBody(r) ==
    /\ pc[r] = "read"
    /\ \E ok \in BOOLEAN :
          /\ Step(r, "receive", ok)
          /\ IF ok
             THEN /\ payload' = [payload EXCEPT ![r] = body[r]]
                  /\ pc' = [pc EXCEPT ![r] = "open"]
                  /\ UNCHANGED <<off, report, email, resp>>
             ELSE Return(r, 500)
    /\ UNCHANGED <<config, body, log, mail, cReport, cMsgs>>

\* Mutant: a failed open is reported but does not end the handler, which goes
\* on to parse the payload.
OpenLog_ErrIgnored(r) ==
    /\ pc[r] = "open"
    /\ \E ok \in BOOLEAN :
          IF ok
          THEN /\ pc' = [pc EXCEPT ![r] = IF Len(payload[r]) = 0 THEN "newline" ELSE "write"]
               /\ UNCHANGED <<payload, off, report, email, resp, steps>>
          ELSE /\ Step(r, "persist", FALSE)
               /\ pc' = [pc EXCEPT ![r] = "parse"]
               /\ UNCHANGED <<payload, off, report, email, resp>>
    /\ UNCHANGED <<config, body, log, mail, cReport, cMsgs>>

\* OpenOptions::new().create(true).append(true).open("crashes.txt")
OpenLog(r) ==
    /\ pc[r] = "open"
    /\ \E ok \in BOOLEAN :
          IF ok
          THEN /\ pc' = [pc EXCEPT ![r] = IF Len(payload[r]) = 0 THEN "newline" ELSE "write"]
               /\ UNCHANGED <<payload, off, report, email, resp, steps>>
          ELSE /\ Step(r, "persist", FALSE)
               /\ Return(r, 500)
    /\ UNCHANGED <<config, body, log, mail, cReport, cMsgs>>

\* The counts one write of `left` tokens can return: all of them, or fewer.
WriteCounts(left) == {left} \cup {n \in {ShortWrite} : n < left}

\* The tokens from..to of the entry of r, as they lie in the file.
Tokens(r, from, to) == [i \in 1..(to - from + 1) |-> <<r, from + i - 1>>]

\* Mutant: a failed write is reported but does not end the handler, which goes
\* on to parse the payload.
WritePayload_ErrIgnored(r) ==
    /\ pc[r] = "write"
    /\ \/ \E n \in WriteCounts(Len(payload[r]) - off[r]) :
             /\ log' = log \o Tokens(r, off[r] + 1, off[r] + n)
             /\ off' = [off EXCEPT ![r] = @ + n]
             /\ pc' = [pc EXCEPT ![r] = IF off[r] + n = Len(payload[r]) THEN "newline" ELSE "write"]
             /\ UNCHANGED <<payload, report, email, resp, steps>>
       \/ /\ Step(r, "persist", FALSE)
          /\ pc' = [pc EXCEPT ![r] = "parse"]
          /\ UNCHANGED <<payload, off, report, email, resp, log>>
    /\ UNCHANGED <<config, body, mail, cReport, cMsgs>>

\* Mutant: the file is opened without append(true): the writes of a handler
\* start at the beginning of the file and overwrite what lies there.
WritePayload_NoAppend(r) ==
    /\ pc[r] = "write"
    /\ \/ \E n \in WriteCounts(Len(payload[r]) - off[r]) :
             /\ log' = [i \in 1..(IF Len(log) > off[r] + n THEN Len(log) ELSE off[r] + n) |->
                            IF i > off[r] /\ i <= off[r] + n THEN <<r, i>> ELSE log[i]]
             /\ off' = [off EXCEPT ![r] = @ + n]
             /\ pc' = [pc EXCEPT ![r] = IF off[r] + n = Len(payload[r]) THEN "newline" ELSE "write"]
             /\ UNCHANGED <<payload, report, email, resp, steps>>
       \/ /\ Step(r, "persist", FALSE)
          /\ Return(r, 500)
          /\ UNCHANGED log
    /\ UNCHANGED <<config, body, mail, cReport, cMsgs>>

\* writeln!(file, "{}", &payload), first piece: write_all of the payload, one
\* write on the O_APPEND file per turn of its loop.
WritePayload(r) ==
    /\ pc[r] = "write"
    /\ \/ \E n \in WriteCounts(Len(payload[r]) - off[r]) :
             /\ log' = log \o Tokens(r, off[r] + 1, off[r] + n)
             /\ off' = [off EXCEPT ![r] = @ + n]
             /\ pc' = [pc EXCEPT ![r] = IF off[r] + n = Len(payload[r]) THEN "newline" ELSE "write"]
             /\ UNCHANGED <<payload, report, email, resp, steps>>
       \/ /\ Step(r, "persist", FALSE)
          /\ Return(r, 500)
          /\ UNCHANGED log
    /\ UNCHANGED <<config, body, mail, cReport, cMsgs>>

\* Mutant: write! in place of writeln!: no line separator is written.
WriteNewline_Missing(r) ==
    /\ pc[r] = "newline"
    /\ \E ok \in BOOLEAN :
          /\ Step(r, "persist", ok)
          /\ IF ok
             THEN /\ pc' = [pc EXCEPT ![r] = "parse"]
                  /\ UNCHANGED <<payload, off, report, email, resp>>
             ELSE Return(r, 500)
    /\ UNCHANGED <<config, body, log, mail, cReport, cMsgs>>

\* writeln!(file, "{}", &payload), second piece: write_all of "\n".
WriteNewline(r) ==
    /\ pc[r] = "newline"
    /\ \E ok \in BOOLEAN :
          /\ Step(r, "persist", ok)
          /\ IF ok
             THEN /\ log' = Append(log, <<r, 0>>)
                  /\ pc' = [pc EXCEPT ![r] = "parse"]
                  /\ UNCHANGED <<payload, off, report, email, resp>>
             ELSE /\ Return(r, 500)
                  /\ UNCHANGED log
    /\ UNCHANGED <<config, body, mail, cReport, cMsgs>>

\* Mutant: a body that does not parse is answered with status 200.
ParseReport_ErrorIsOk(r) ==
    /\ pc[r] = "parse"
    /\ \E res \in ParseResults(payload[r]) :
          /\ Step(r, "parse", res.ok)
          /\ IF res.ok
             THEN /\ report' = [report EXCEPT ![r] = res.report]
                  /\ pc' = [pc EXCEPT ![r] = "email"]
                  /\ UNCHANGED <<payload, off, email, resp>>
             ELSE Return(r, 200)
    /\ UNCHANGED <<config, body, log, mail, cReport, cMsgs>>

\* let report: Report = match serde_json::from_str(&payload)
ParseReport(r) ==
    /\ pc[r] = "parse"
    /\ \E res \in ParseResults(payload[r]) :
          /\ Step(r, "parse", res.ok)
          /\ IF res.ok
             THEN /\ report' = [report EXCEPT ![r] = res.report]
                  /\ pc' = [pc EXCEPT ![r] = "email"]
                  /\ UNCHANGED <<payload, off, email, resp>>
             ELSE Return(r, 500)
    /\ UNCHANGED <<config, body, log, mail, cReport, cMsgs>>

\* Mutant: the Err arm of the builder's result lacks its return, so the
\* handler falls through to the 200 response.
CreateEmail_ErrFallsThrough(r) ==
    /\ pc[r] = "email"
    /\ \E valid \in BOOLEAN :
          LET res == EmailResult(config, report[r], valid) IN
          /\ Step(r, "compose", res.kind = "ok")
          /\ CASE res.kind = "ok" ->
                    /\ email' = [email EXCEPT ![r] = res.email]
                    /\ pc' = [pc EXCEPT ![r] = "send"]
                    /\ UNCHANGED <<payload, off, report, resp>>
               [] res.kind = "err" -> Return(r, 200)
               [] res.kind = "panic" ->
                    /\ pc' = [pc EXCEPT ![r] = "panicked"]
                    /\ payload' = [payload EXCEPT ![r] = None]
                    /\ report' = [report EXCEPT ![r] = None]
                    /\ UNCHANGED <<off, email, resp>>
    /\ UNCHANGED <<config, body, log, mail, cReport, cMsgs>>

\* email_text and Message::builder() … .body(&email_text)
CreateEmail(r) ==
    /\ pc[r] = "email"
    /\ \E valid \in BOOLEAN :
          LET res == EmailResult(config, report[r], valid) IN
          /\ Step(r, "compose", res.kind = "ok")
          /\ CASE res.kind = "ok" ->
                    /\ email' = [email EXCEPT ![r] = res.email]
                    /\ pc' = [pc EXCEPT ![r] = "send"]
                    /\ UNCHANGED <<payload, off, report, resp>>
               [] res.kind = "err" -> Return(r, 500)
               [] res.kind = "panic" ->
                    \* unwrap panics: the worker unwinds and no response is written
                    /\ pc' = [pc EXCEPT ![r] = "panicked"]
                    /\ payload' = [payload EXCEPT ![r] = None]
                    /\ report' = [report EXCEPT ![r] = None]
                    /\ UNCHANGED <<off, email, resp>>
    /\ UNCHANGED <<config, body, log, mail, cReport, cMsgs>>

\* Mutant: the Err arm of send lacks its return, so a failed delivery is
\* answered with status 200.
SendEmail_ErrFallsThrough(r) ==
    /\ pc[r] = "send"
    /\ \E ok \in BOOLEAN :
          /\ Step(r, "deliver", ok)
          /\ mail' = [mail EXCEPT ![r] = IF ok THEN Append(@, email[r]) ELSE @]
          /\ Return(r, 200)
    /\ UNCHANGED <<config, body, log, cReport, cMsgs>>

\* transport.send(&email)
\* Mutant: a failed delivery is tried once more before the handler answers.
SendEmail_Retry(r) ==
    /\ pc[r] = "send"
    /\ \E ok \in BOOLEAN :
          /\ Step(r, "deliver", ok)
          /\ mail' = [mail EXCEPT ![r] = IF ok THEN Append(@, email[r]) ELSE @]
          /\ IF ok \/ (\E i \in 1..Len(steps[r]) : steps[r][i] = <<"deliver", FALSE>>)
             THEN Return(r, IF ok THEN 200 ELSE 500)
             ELSE UNCHANGED <<pc, payload, off, report, email, resp>>
    /\ UNCHANGED <<config, body, log, cReport, cMsgs>>

SendEmail(r) ==
    /\ pc[r] = "send"
    /\ \E ok \in BOOLEAN :
          /\ Step(r, "deliver", ok)
          /\ mail' = [mail EXCEPT ![r] = IF ok THEN Append(@, email[r]) ELSE @]
          /\ Return(r, IF ok THEN 200 ELSE 500)
    /\ UNCHANGED <<config, body, log, cReport, cMsgs>>

Handle(r) ==
    \/ ReadBody(r)
    \/ OpenLog(r)
    \/ WritePayload(r)
    \/ WriteNewline(r)
    \/ ParseReport(r)
    \/ CreateEmail(r)
    \/ SendEmail(r)

Init ==
    /\ config \in Configs
    /\ pc = [r \in Reqs |-> "pending"]
    /\ body = [r \in Reqs |-> <<>>]
    /\ payload = [r \in Reqs |-> None]
    /\ off = [r \in Reqs |-> 0]
    /\ report = [r \in Reqs |-> None]
    /\ email = [r \in Reqs |-> None]
    /\ log = <<>>
    /\ mail = [r \in Reqs |-> <<>>]
    /\ resp = [r \in Reqs |-> None]
    /\ steps = [r \in Reqs |-> <<>>]
    /\ cReport = None
    /\ cMsgs = <<>>

Next ==
    \E r \in Reqs :
        \/ Accept(r)
        \/ ReadBody(r)
        \/ OpenLog(r)
        \/ WritePayload(r)
        \/ WriteNewline(r)
        \/ ParseReport(r)
        \/ CreateEmail(r)
        \/ SendEmail(r)

Spec == Init /\ [][Next]_vars

\* Every call of the handler runs on: a worker thread that is inside handle
\* takes its next step (read, write and send all return, with Ok or Err).
FairSpec == Spec /\ \A r \in Reqs : WF_vars(Handle(r))

\* ---------------------------------------------------------------- the pool
\* More requests than the pool has workers, every one a valid report, in the
\* runs in which no step before mail delivery fails, every write is complete
\* and the workers write to the file in the order in which their requests
\* arrived: runs in which all the workers are busy at once, up to mail
\* delivery, and a request waits.
PoolExtra == 1

PoolReqs == 1..(Threads + PoolExtra)

InitPool ==
    /\ config = GoodConfig
    /\ pc = [r \in PoolReqs |-> "pending"]
    /\ body = [r \in PoolReqs |-> <<>>]
    /\ payload = [r \in PoolReqs |-> None]
    /\ off = [r \in PoolReqs |-> 0]
    /\ report = [r \in PoolReqs |-> None]
    /\ email = [r \in PoolReqs |-> None]
    /\ log = <<>>
    /\ mail = [r \in PoolReqs |-> <<>>]
    /\ resp = [r \in PoolReqs |-> None]
    /\ steps = [r \in PoolReqs |-> <<>>]
    /\ cReport = None
    /\ cMsgs = <<>>

\* No step of r before mail delivery has failed, its body is a valid report,
\* its writes are whole.
Faultless(r) ==
    /\ \A i \in 1..Len(steps[r]) : steps[r][i][1] # "deliver" => steps[r][i][2]
    /\ pc[r] # "pending" => body[r] = GoodBody
    /\ off[r] \in {0, Len(GoodBody)}

\* The entries of the requests 1..n, one after the other.
RECURSIVE EntriesUpTo(_)
EntriesUpTo(n) ==
    IF n = 0 THEN <<>>
    ELSE EntriesUpTo(n - 1) \o Tokens(n, 1, Len(GoodBody)) \o <<<<n, 0>>>>

\* The file holds the entries in the order of arrival, the last one in part.
FileInArrivalOrder ==
    log = SubSeq(EntriesUpTo(Threads + PoolExtra), 1, Len(log))

\* The runs of the pool: a step is taken if it leaves such a state.
InPool(r) == Faultless(r) /\ FileInArrivalOrder

NextPool ==
    \E r \in PoolReqs :
        \/ Accept(r) /\ InPool(r)'
        \/ ReadBody(r) /\ InPool(r)'
        \/ OpenLog(r) /\ InPool(r)'
        \/ WritePayload(r) /\ InPool(r)'
        \/ WriteNewline(r) /\ InPool(r)'
        \/ ParseReport(r) /\ InPool(r)'
        \/ CreateEmail(r) /\ InPool(r)'
        \/ SendEmail(r) /\ InPool(r)'

PoolSpec == InitPool /\ [][NextPool]_vars

\* ------------------------------------------------------------------ claims
\* The entry writeln! makes for request r: its body, then the line separator.
EntryOf(r) == Tokens(r, 1, Len(body[r])) \o <<<<r, 0>>>>

\* What request r has put in the file so far, in the order of the file.
Written(r) == SelectSeq(log, LAMBDA e : e[1] = r)

Did(r, name, ok) == \E i \in 1..Len(steps[r]) : steps[r][i] = <<name, ok>>

Answered(r) == pc[r] = "done"

\* The entry of r lies in the file in one piece.
Contiguous(r) ==
    \E k \in 0..(Len(log) - Len(EntryOf(r))) :
        SubSeq(log, k + 1, k + Len(EntryOf(r))) = EntryOf(r)

AllSteps ==
    <<<<"receive", TRUE>>, <<"persist", TRUE>>, <<"parse", TRUE>>,
      <<"compose", TRUE>>, <<"deliver", TRUE>>>>

\* C1: a request with a valid Report body whose log append and mail delivery
\* both succeed has put exactly its body and one line separator in the log,
\* has exactly one notification delivered (the one composed from its report)
\* and is answered with status 200.
C1_ValidReportOneLineOneMail ==
    \A r \in Reqs :
        (IsReport(body[r]) /\ Did(r, "persist", TRUE) /\ Did(r, "deliver", TRUE)) =>
            /\ Written(r) = EntryOf(r)
            /\ Len(mail[r]) = 1
            /\ mail[r][1].subject = Subject(Report(body[r]))
            /\ resp[r] = Response(200)

C1_Witness ==
    \E r \in Reqs :
        /\ IsReport(body[r]) /\ Did(r, "persist", TRUE) /\ Did(r, "deliver", TRUE)
        /\ Answered(r) /\ Len(mail[r]) = 1

\* C2 (as stated): a request whose body was read and is no valid Report has
\* its raw body appended to the log, is answered with status 500 and has no
\* notification sent.
C2_MalformedStillLogged ==
    \A r \in Reqs :
        (Answered(r) /\ Did(r, "receive", TRUE) /\ ~IsReport(body[r])) =>
            /\ Written(r) = EntryOf(r)
            /\ resp[r] = Response(500)
            /\ mail[r] = <<>>

\* C2 (amended): a request whose body was read and is no valid Report is
\* answered with status 500 and has no notification sent; its raw body and the
\* line separator are in the log whenever its log append succeeded.
C2_MalformedLoggedIfAppended ==
    \A r \in Reqs :
        (Answered(r) /\ Did(r, "receive", TRUE) /\ ~IsReport(body[r])) =>
            /\ resp[r] = Response(500)
            /\ mail[r] = <<>>
            /\ Did(r, "persist", TRUE) => Written(r) = EntryOf(r)
            /\ Did(r, "parse", FALSE) => Written(r) = EntryOf(r)

C2_Witness ==
    \E r \in Reqs :
        /\ Answered(r) /\ ~IsReport(body[r])
        /\ Did(r, "parse", FALSE) /\ Written(r) = EntryOf(r)

\* C3: when all the requests have appended to the log, the log holds the entry
\* of each of them in one piece (payload and separator, nothing of another
\* request inside) and nothing else.
C3_EntriesNotInterleaved ==
    (\A r \in Reqs : Did(r, "persist", TRUE)) =>
        /\ \A r \in Reqs : Written(r) = EntryOf(r)
        /\ \A r \in Reqs : Contiguous(r)

\* C4: no call of the handler panics.
C4_HandlerNeverPanics == \A r \in Reqs : pc[r] # "panicked"

C6_DeliveryFailureKeepsLog ==
    \A r \in Reqs :
        Did(r, "deliver", FALSE) =>
            /\ resp[r] = Response(500)
            /\ Written(r) = EntryOf(r)
            /\ mail[r] = <<>>

C6_Witness == \E r \in Reqs : Did(r, "deliver", FALSE) /\ Answered(r)

\* C7: a response is 200 or 500 with an empty body, and it is 200 exactly
\* when receive, persist, parse, compose and deliver all succeeded.
C7_ResponseIffAllStepsOk ==
    \A r \in Reqs :
        Answered(r) =>
            /\ resp[r].status \in {200, 500}
            /\ resp[r].body = <<>>
            /\ resp[r].status = 200 <=> steps[r] = AllSteps
            /\ resp[r].status = 200 <=> (Len(mail[r]) = 1 /\ Written(r) = EntryOf(r))

C7_Witness ==
    /\ \E r \in Reqs : Answered(r) /\ resp[r].status = 200
    /\ \E r \in Reqs : Answered(r) /\ resp[r].status = 500

\* C8: the log never holds a part of an entry: what a request has put in the
\* file is nothing or its whole payload with the separator.
C8_AppendAllOrNothing ==
    \A r \in Reqs : pc[r] # "pending" => Written(r) \in {<<>>, EntryOf(r)}

\* ------------------------------------------------------ the composer alone
\* The rendering of a Report into a Message is a function of the handler; here
\* it is applied twice to one report content, each time with the iteration
\* order of a HashMap of its own (two requests with the same report).
CustomDatas ==
    {<<>>,
     Str("k") :> StrVal(Str("v")),
     Str("k") :> StrVal(Str("v")) @@ Str("j") :> NumVal(7)}

Reports ==
    {[ANDROID_VERSION  |-> Str("9"),
      APP_VERSION_CODE |-> c,
      APP_VERSION_NAME |-> v,
      CUSTOM_DATA      |-> cd,
      PACKAGE_NAME     |-> p,
      REPORT_ID        |-> Str("i"),
      STACK_TRACE      |-> Str("s")] :
        p \in Strs, v \in Strs, c \in {7, 12}, cd \in CustomDatas}

InitCompose ==
    /\ config \in {GoodConfig, BadFromConfig, BadToConfig}
    /\ pc = [r \in Reqs |-> "pending"]
    /\ body = [r \in Reqs |-> <<>>]
    /\ payload = [r \in Reqs |-> None]
    /\ off = [r \in Reqs |-> 0]
    /\ report = [r \in Reqs |-> None]
    /\ email = [r \in Reqs |-> None]
    /\ log = <<>>
    /\ mail = [r \in Reqs |-> <<>>]
    /\ resp = [r \in Reqs |-> None]
    /\ steps = [r \in Reqs |-> <<>>]
    /\ cReport \in Reports
    /\ cMsgs = <<>>

Compose ==
    /\ Len(cMsgs) < 2
    /\ \E o \in IterOrders(DOMAIN cReport.CUSTOM_DATA), valid \in BOOLEAN :
          cMsgs' = Append(cMsgs, EmailResult(config, [rep |-> cReport, iter |-> o], valid))
    /\ UNCHANGED <<hvars, cReport>>

NextCompose == Compose

ComposeSpec == InitCompose /\ [][NextCompose]_vars

\* The lines of a text: its tokens between the line ends.
RECURSIVE Lines(_)
Lines(text) ==
    IF \A i \in 1..Len(text) : text[i] # CRLF THEN <<text>>
    ELSE LET e == CHOOSE i \in 1..Len(text) :
                      text[i] = CRLF /\ \A j \in 1..(i - 1) : text[j] # CRLF
         IN  <<SubSeq(text, 1, e - 1)>> \o Lines(SubSeq(text, e + 1, Len(text)))

Count(l, ls) == Cardinality({i \in 1..Len(ls) : ls[i] = l})

\* Two texts made of the same lines, each as often in the one as in the other.
SameLines(a, b) ==
    /\ Len(Lines(a)) = Len(Lines(b))
    /\ \A i \in 1..Len(Lines(a)) : Count(Lines(a)[i], Lines(a)) = Count(Lines(a)[i], Lines(b))

IsCustomLine(l) == Len(l) > 0 /\ l[1] = "  "

Built == {i \in 1..Len(cMsgs) : cMsgs[i].kind = "ok"}

\* C9 (as stated): composing twice for the same Report and Config gives the
\* same message: from, to, subject and body.
C9_ComposeDeterministic ==
    \A i, j \in Built : cMsgs[i].email = cMsgs[j].email

\* C9 (amended): composing twice for the same Report and Config gives the same
\* from, to and subject, and bodies made of the same lines that differ at most
\* in the order of the custom-data lines; the bodies are equal when the Report
\* has fewer than two custom-data entries.
C9_ComposeSameUpToCustomOrder ==
    \A i, j \in Built :
        LET a == cMsgs[i].email
            b == cMsgs[j].email
        IN  /\ a.from = b.from /\ a.to = b.to /\ a.subject = b.subject
            /\ SameLines(a.body, b.body)
            /\ \A n \in 1..Len(Lines(a.body)) :
                  Lines(a.body)[n] # Lines(b.body)[n] =>
                      IsCustomLine(Lines(a.body)[n]) /\ IsCustomLine(Lines(b.body)[n])
            /\ Cardinality(DOMAIN cReport.CUSTOM_DATA) < 2 => a.body = b.body

C9_Witness ==
    /\ Built = {1, 2}
    /\ Cardinality(DOMAIN cReport.CUSTOM_DATA) = 2
    /\ cMsgs[1].email.body # cMsgs[2].email.body

NoParen(s) == \A i \in 1..(Len(s) - 1) : ~(s[i] = " " /\ s[i + 1] = "(")

\* C10 (as stated): any Report distinct from the one composed has a subject
\* different from its subject.
C10_DistinctReportsDistinctSubjects ==
    \A i \in Built : \A other \in Reports :
        other # cReport => Subject(other) # cMsgs[i].email.subject

\* C10 (amended): a Report that differs from the one composed in PACKAGE_NAME
\* or APP_VERSION_NAME has a different subject, provided neither PACKAGE_NAME
\* contains " ("; a Report with the same PACKAGE_NAME and APP_VERSION_NAME has
\* the same subject.
C10_SubjectTellsPackageAndVersion ==
    \A i \in Built : \A other \in Reports :
        LET same == /\ other.PACKAGE_NAME = cReport.PACKAGE_NAME
                    /\ other.APP_VERSION_NAME = cReport.APP_VERSION_NAME
        IN  /\ same => Subject(other) = cMsgs[i].email.subject
            /\ (~same /\ NoParen(other.PACKAGE_NAME) /\ NoParen(cReport.PACKAGE_NAME)) =>
                   Subject(other) # cMsgs[i].email.subject

C10_Witness ==
    /\ Built # {}
    /\ NoParen(cReport.PACKAGE_NAME)
    /\ Len(cReport.PACKAGE_NAME) = MaxLen
    /\ \E other \in Reports :
          /\ other.PACKAGE_NAME # cReport.PACKAGE_NAME
          /\ other.APP_VERSION_NAME = cReport.APP_VERSION_NAME
          /\ NoParen(other.PACKAGE_NAME)
          /\ Subject(other) # cMsgs[1].email.subject

\* C11: the subject of a composed notification is "New crash of ", the
\* PACKAGE_NAME, a space, and the APP_VERSION_NAME in parentheses; a Report with
\* the same two names has the same subject, whatever its other fields.
C11_SubjectFormat ==
    \A i \in Built :
        /\ cMsgs[i].email.subject =
               <<"New crash of ">> \o cReport.PACKAGE_NAME \o <<" ">>
               \o <<"(">> \o cReport.APP_VERSION_NAME \o <<")">>
        /\ \A other \in Reports :
              (/\ other.PACKAGE_NAME = cReport.PACKAGE_NAME
               /\ other.APP_VERSION_NAME = cReport.APP_VERSION_NAME) =>
                  Subject(other) = cMsgs[i].email.subject

C11_Witness ==
    /\ Built # {}
    /\ Len(cReport.PACKAGE_NAME) = MaxLen
    /\ Len(cReport.APP_VERSION_NAME) > 0
    /\ DOMAIN cReport.CUSTOM_DATA # {}
    /\ Len(cMsgs[1].email.subject) = Len(cReport.PACKAGE_NAME) + Len(cReport.APP_VERSION_NAME) + 4

\* The line that shows the entry of key k in the custom-data section.
PairLine(cd, k) == <<"  ">> \o k \o <<" = ">> \o DisplayValue(cd[k])

\* C12: with an empty CUSTOM_DATA the body has no custom-data section (no
\* heading, no entry line); with a non-empty one the body has the heading once
\* and the line of every key/value pair exactly once, and no other entry line.
C12_CustomDataSection ==
    \A i \in Built :
        LET ls == Lines(cMsgs[i].email.body)
            cd == cReport.CUSTOM_DATA
            custom == {n \in 1..Len(ls) : IsCustomLine(ls[n])}
        IN  IF DOMAIN cd = {}
            THEN Count(<<"Custom data:">>, ls) = 0 /\ custom = {}
            ELSE /\ Count(<<"Custom data:">>, ls) = 1
                 /\ \A k \in DOMAIN cd : Count(PairLine(cd, k), ls) = 1
                 /\ Cardinality(custom) = Cardinality(DOMAIN cd)

C12_Witness ==
    /\ Built # {}
    /\ Cardinality(DOMAIN cReport.CUSTOM_DATA) = 2
    /\ \A k \in DOMAIN cReport.CUSTOM_DATA :
          Count(PairLine(cReport.CUSTOM_DATA, k), Lines(cMsgs[1].email.body)) = 1

C12_WitnessEmpty ==
    /\ Built # {}
    /\ DOMAIN cReport.CUSTOM_DATA = {}
    /\ Count(<<"Custom data:">>, Lines(cMsgs[1].email.body)) = 0

\* The names of the steps of the handler, in the order of the code.
StepNames == <<"receive", "persist", "parse", "compose", "deliver">>

\* The steps r has taken are the first steps of StepNames, in that order, and
\* only the last of them may have failed.
InOrder(r) ==
    /\ Len(steps[r]) <= Len(StepNames)
    /\ \A i \in 1..Len(steps[r]) :
          /\ steps[r][i][1] = StepNames[i]
          /\ i < Len(steps[r]) => steps[r][i][2]

\* The handler of r has stopped: it has answered, or its worker has panicked.
Stopped(r) == pc[r] \in {"done", "panicked"}

\* The text request r has put in the file, read through the tokens of the file.
WrittenText(r) == [i \in 1..Len(Written(r)) |-> TokenText(body, Written(r)[i])]

\* C13: the steps of a request run in the order persist, parse, compose,
\* deliver and stop at the first failure: parsing starts only from the
\* successful end of the request's own append, composing only after its parse,
\* delivery only after both, and after a failed step the handler has stopped.
C13_StepsInOrder ==
    /\ [](\A r \in Reqs :
            /\ InOrder(r)
            /\ (\E i \in 1..Len(steps[r]) : ~steps[r][i][2]) => Stopped(r)
            /\ pc[r] \in {"parse", "email", "send"} =>
                  /\ Did(r, "persist", TRUE)
                  /\ WrittenText(r) = body[r] \o <<Newline>>
            /\ pc[r] \in {"email", "send"} => Did(r, "parse", TRUE)
            /\ pc[r] = "send" => Did(r, "compose", TRUE)
            /\ mail[r] # <<>> =>
                  /\ Did(r, "persist", TRUE)
                  /\ Did(r, "parse", TRUE)
                  /\ Did(r, "compose", TRUE))
    /\ [][\A r \in Reqs :
            /\ (pc'[r] = "parse" /\ pc[r] # "parse") =>
                  pc[r] = "newline" /\ log' = Append(log, <<r, 0>>)
            /\ (pc'[r] = "email" /\ pc[r] # "email") => pc[r] = "parse"
            /\ (pc'[r] = "send" /\ pc[r] # "send") => pc[r] = "email"
            /\ mail'[r] # mail[r] => pc[r] = "send"
            /\ Stopped(r) => steps'[r] = steps[r] /\ pc'[r] = pc[r]]_vars

C13_Witness ==
    \E r \in Reqs :
        /\ steps[r] = <<<<"receive", TRUE>>, <<"persist", TRUE>>,
                        <<"parse", TRUE>>, <<"compose", TRUE>>, <<"deliver", FALSE>>>>
        /\ \E q \in Reqs :
              steps[q] = <<<<"receive", TRUE>>, <<"persist", TRUE>>, <<"parse", FALSE>>>>

\* C14: a request whose log append failed (open or write) is answered with
\* status 500 and goes no further: its body is not parsed, no notification is
\* composed or sent for it.
C14_AppendFailureStops ==
    \A r \in Reqs :
        Did(r, "persist", FALSE) =>
            /\ Answered(r)
            /\ resp[r] = Response(500)
            /\ \A ok \in BOOLEAN :
                  /\ ~Did(r, "parse", ok)
                  /\ ~Did(r, "compose", ok)
                  /\ ~Did(r, "deliver", ok)
            /\ report[r] = None
            /\ mail[r] = <<>>

C14_Witness ==
    \E r, q \in Reqs :
        /\ Did(r, "persist", FALSE) /\ Written(r) = <<>> /\ body[r] = GoodBody
        /\ Did(q, "persist", FALSE) /\ Written(q) # <<>> /\ body[q] = GoodBody
        /\ resp[r] = Response(500) /\ resp[q] = Response(500)

\* C15: a request whose body could not be read is answered with status 500 and
\* nothing else happens for it: the step that fails leaves the log and the
\* sent mail as they are, and the request never writes to the log nor has a
\* notification sent.
C15_ReadFailureOnly500 ==
    /\ [](\A r \in Reqs :
            Did(r, "receive", FALSE) =>
                /\ Answered(r)
                /\ resp[r] = Response(500)
                /\ steps[r] = <<<<"receive", FALSE>>>>
                /\ Written(r) = <<>>
                /\ mail[r] = <<>>)
    /\ [][\A r \in Reqs :
            (~Did(r, "receive", FALSE) /\ Did(r, "receive", FALSE)') =>
                /\ log' = log
                /\ mail' = mail
                /\ config' = config]_vars

C15_Witness ==
    \E r, q \in Reqs :
        /\ steps[r] = <<<<"receive", FALSE>>>>
        /\ resp[r] = Response(500)
        /\ Written(r) = <<>>
        /\ Written(q) # <<>>

\* The log before the step is the beginning of the log after it.
LogGrows == Len(log) <= Len(log') /\ log = SubSeq(log', 1, Len(log))

\* The number of delivery attempts request r has made.
Attempts(r) == Cardinality({i \in 1..Len(steps[r]) : steps[r][i][1] = "deliver"})

\* C16: no retry and no rollback. Once the entry of a request is appended, no
\* later step removes or alters it, a failed parse or delivery included; a
\* request makes at most one delivery attempt; and a request whose parse or
\* delivery has failed has no notification sent, then or later.
C16_NoRetryNoRollback ==
    [][/\ LogGrows
       /\ \A r \in Reqs :
            /\ Did(r, "persist", TRUE) =>
                  \A i \in (Len(log) + 1)..Len(log') : log'[i][1] # r
            /\ steps'[r] # steps[r] =>
                  /\ Attempts(r)' <= 1
                  /\ steps'[r][Len(steps'[r])] \in
                         {<<"parse", FALSE>>, <<"compose", FALSE>>, <<"deliver", FALSE>>} =>
                        /\ log' = log
                        /\ mail' = mail
                        /\ Stopped(r)'
            /\ (Did(r, "parse", FALSE) \/ Did(r, "deliver", FALSE)) =>
                  /\ steps'[r] = steps[r]
                  /\ mail[r] = <<>>
                  /\ mail'[r] = <<>>
            /\ Len(mail'[r]) <= 1]_vars

C16_Witness ==
    \E r, q \in Reqs :
        /\ Did(r, "deliver", FALSE) /\ Answered(r)
        /\ Did(q, "parse", FALSE) /\ Answered(q)
        /\ Written(r) = EntryOf(r)
        /\ Written(q) = EntryOf(q)
        /\ mail[r] = <<>> /\ mail[q] = <<>>

\* The number of notifications delivered for the requests 1..n.
RECURSIVE Delivered(_)
Delivered(n) == IF n = 0 THEN 0 ELSE Len(mail[n]) + Delivered(n - 1)

\* The line separators in the log: one for every entry that was completed.
Separators == SelectSeq(log, LAMBDA e : e[2] = 0)

\* The messages the composer can build from a request body under config.
ComposedFrom(text) ==
    {EmailResult(config, res.report, TRUE).email :
        res \in {x \in ParseResults(text) : x.ok}}

C20_ConfigFixedAddresses ==
    /\ [][config' = config]_vars
    /\ [](\A r \in Reqs :
            /\ \A i \in 1..Len(mail[r]) :
                  /\ mail[r][i].from = config.email_from
                  /\ mail[r][i].to = config.email_to
            /\ email[r] # None =>
                  /\ email[r].from = config.email_from
                  /\ email[r].to = config.email_to)

C20_Witness ==
    \E r, q \in Reqs :
        /\ r # q
        /\ Len(mail[r]) = 1 /\ Len(mail[q]) = 1
        /\ mail[r][1].from = GoodConfig.email_from
        /\ mail[q][1].to = GoodConfig.email_to
        /\ config = GoodConfig

\* Every token of request a lies before every token of request b in the log.
Precedes(a, b) ==
    \A i, j \in 1..Len(log) : (log[i][1] = a /\ log[j][1] = b) => i < j

\* Arrival order: once request a is answered, what request b writes from then
\* on lies after all that a wrote; so it does for a request b received later.
ArrivalOrderKept ==
    \A a, b \in Reqs :
        (a # b /\ Stopped(a) /\ (pc[b] = "pending" \/ Precedes(a, b))) => Precedes(a, b)'

\* The place of the last line separator before place j of the log, or 0.
PrevSeparator(j) ==
    LET before == {i \in 1..(j - 1) : log[i][2] = 0}
    IN  IF before = {} THEN 0 ELSE CHOOSE i \in before : \A k \in before : k <= i

\* The text of the line of the file that ends with the separator at place j.
LineEndingAt(j) ==
    [i \in 1..(j - 1 - PrevSeparator(j)) |-> TokenText(body, log[PrevSeparator(j) + i])]

\* Every line of the file is the raw body of a request that was received.
EntriesVerbatim ==
    \A j \in 1..Len(log) :
        log[j][2] = 0 =>
            \E r \in Reqs : pc[r] # "pending" /\ LineEndingAt(j) = body[r]

\* C17: the entries of the log are in arrival order for requests that do not
\* overlap (a answered before b is received: the entry of a precedes the entry
\* of b), and every entry is the raw body of a request followed by one line
\* separator.
C17_ArrivalOrderVerbatimEntries ==
    /\ [][ArrivalOrderKept]_vars
    /\ []EntriesVerbatim

\* The first half of C17 alone.
C17_ArrivalOrder == [][ArrivalOrderKept]_vars

\* The requests inside the pipeline: received and not yet answered.
Inside == {r \in DOMAIN pc : pc[r] \in Running}

\* C18: the pool has 4 workers and a request holds one from receive to
\* respond: at most 4 requests are inside the pipeline at any time, and while
\* 4 requests are in mail delivery no other request is started.
C18_AtMostFourInside ==
    /\ [](Cardinality(Inside) <= 4)
    /\ [][Cardinality({r \in DOMAIN pc : pc[r] = "send"}) = 4 =>
             \A r \in DOMAIN pc : pc[r] = "pending" => pc'[r] = "pending"]_vars

C18_Witness ==
    /\ Cardinality({r \in DOMAIN pc : pc[r] = "send"}) = 4
    /\ \E r \in DOMAIN pc : pc[r] = "pending"

====
